---- MODULE Spec2Model ----
(***************************************************************************)
(* Model of karaoke-server/src/now_playing.rs: the Playlist (queue store). *)
(* One action per public method of Playlist; did_change is part of every   *)
(* mutating action.  Time is counted in whole seconds.  Indices are        *)
(* 1-based here and 0-based in the source.                                 *)
(*                                                                         *)
(* Spec follows whole calls from Playlist::load.  SpecSubscribed follows    *)
(* the same calls from the state with two listeners registered.  SpecTasks *)
(* splits the calls at their await points and interleaves tasks under the  *)
(* write guard of song_queue.                                              *)
(***************************************************************************)
EXTENDS Integers, Sequences, FiniteSets, TLC

VARIABLES
    valid_songs,            \* Playlist.valid_songs
    index,                  \* the songs the SearchIndex resolves (collaborator)
    list,                   \* InnerPlaylist.list
    play_history,           \* InnerPlaylist.play_history
    listeners,              \* keys of InnerPlaylist.listeners
    nextSub,                \* the next channel handed to subscribe
    intermission_duration,  \* InnerPlaylist.intermission_duration
    intermission_count,     \* InnerPlaylist.intermission_count
    file,                   \* the file at persist_path
    chan,                   \* receiving end of each listener's channel
    sent,                   \* snapshots sent to each listener by the last call
    now,                    \* OffsetDateTime::now_utc()
    nextId,                 \* next value Uuid::new_v4() returns
    song_log,               \* Playlist.song_log: whether configured, and the records
    bug_log,                \* the records appended to Playlist.bug_log
    faults,                 \* I/O faults the environment has produced so far
    ops,                    \* calls and environment steps of the behaviour so far
    lastOp,                 \* the call just made, its arguments and its result
    lock,                   \* the task holding song_queue's write guard, 0 for none
    pc,                     \* where each task stands in its call
    local,                  \* each task's call and the json it has serialized
    inbox,                  \* what each listener's receiver has been sent, in order
    order                   \* the documents of the in-memory states, in the order
                            \* the states came about

vars == <<valid_songs, index, list, play_history, listeners, nextSub,
          intermission_duration, intermission_count, file, chan, sent, now,
          nextId, song_log, bug_log, faults, ops, lastOp,
          lock, pc, local, inbox, order>>

\* the variables that follow tasks interleaving at their await points
taskVars == <<lock, pc, local, inbox, order>>

----------------------------------------------------------------------------
(* Program constants *)

MAX_PLAY_HISTORY == 3

\* Duration::minutes(5), in seconds
FiveMinutes == 300

(* Bounds of the model *)

MaxFaults == 1
MaxSubs == 3
MaxOps == 2
MaxTasks == 2

Songs == {1, 2, 3}
Singers == {"ann"}
Reports == {"lyrics wrong"}
Passwords == {"pw1", "pw2"}
\* the entries of a previous run carry pw1, the entries added in this one pw2
AddPasswords == {"pw2"}
\* the channels handed to subscribe, in the order they are handed
Listeners == 1..MaxSubs
\* the tasks that call into the Playlist concurrently
Tasks == 1..MaxTasks
TickSteps == {1, 299}
T0 == 1000

\* catalog record of a song: its duration in seconds
SongDuration(s) == CASE s = 1 -> 180 [] s = 2 -> 200 [] OTHER -> 150

\* catalog record of a song: songs[0].artist and songs[0].title
Artist(s) == <<"artist", s>>
Title(s) == <<"title", s>>

\* OffsetDateTime::format(&Rfc3339)
Rfc3339(t) == <<"rfc3339", t>>

\* sha256::digest: one-way, collision-free on the passwords used
digest(p) == <<"sha256", p>>

----------------------------------------------------------------------------
(* Sequence helpers: VecDeque operations *)

Ids(l) == [i \in 1..Len(l) |-> l[i].id]

IdSet(l) == {l[i].id : i \in 1..Len(l)}

\* iter().enumerate().find_map(...): first index holding id, 0 for None
find_song_in_queue(l, id) ==
    IF \E i \in 1..Len(l) : l[i].id = id
    THEN CHOOSE i \in 1..Len(l) :
            /\ l[i].id = id
            /\ \A j \in 1..(i - 1) : l[j].id # id
    ELSE 0

\* VecDeque::remove(i)
RemoveAt(l, i) == SubSeq(l, 1, i - 1) \o SubSeq(l, i + 1, Len(l))

\* VecDeque::insert(i, e): e ends at position i
InsertAt(l, i, e) == SubSeq(l, 1, i - 1) \o <<e>> \o SubSeq(l, i, Len(l))

\* VecDeque::swap(i, j)
SwapAt(l, i, j) == [l EXCEPT ![i] = l[j], ![j] = l[i]]

\* VecDeque::retain(|entry| valid.contains(&entry.song))
Retain(l, valid) == SelectSeq(l, LAMBDA e : e.song \in valid)

PlaylistEntry(id, song, singer, hash, pe) ==
    [id |-> id, song |-> song, singer |-> singer, password_hash |-> hash,
     predicted_end |-> pe]

----------------------------------------------------------------------------
(* serde: the persisted and broadcast document *)

EntryToJson(e) ==
    [id |-> e.id, song |-> e.song, singer |-> e.singer,
     passwordHash |-> e.password_hash,
     predictedEnd |-> <<"rfc3339", e.predicted_end>>]

EntryFromJson(j) ==
    [id |-> j.id, song |-> j.song, singer |-> j.singer,
     password_hash |-> j.passwordHash,
     predicted_end |-> j.predictedEnd[2]]

\* serde_json::to_string(inner): listeners are skipped
ToJson(l, h, d, c) ==
    [playHistory |-> [i \in 1..Len(h) |-> EntryToJson(h[i])],
     list |-> [i \in 1..Len(l) |-> EntryToJson(l[i])],
     intermissionDuration |-> <<"secs", d>>,
     intermissionCount |-> c]

\* serde_json::from_slice(&data): listeners take their default
FromJson(j) ==
    [play_history |-> [i \in 1..Len(j.playHistory) |-> EntryFromJson(j.playHistory[i])],
     list |-> [i \in 1..Len(j.list) |-> EntryFromJson(j.list[i])],
     listeners |-> {},
     intermission_duration |-> j.intermissionDuration[2],
     intermission_count |-> j.intermissionCount]

\* InnerPlaylist::default()
DefaultInner ==
    [play_history |-> <<>>, list |-> <<>>, listeners |-> {},
     intermission_duration |-> 0, intermission_count |-> 0]

FileAbsent == [kind |-> "absent", doc |-> <<>>]
FilePartial == [kind |-> "partial", doc |-> <<>>]
FileDoc(j) == [kind |-> "doc", doc |-> <<j>>]

\* load that filters the pending list only
LoadInnerListOnly(f, valid) ==
    IF f.kind = "absent"
    THEN DefaultInner
    ELSE LET q == FromJson(f.doc[1])
         IN  [q EXCEPT !.list = Retain(q.list, valid)]

\* body of Playlist::load once the logs are open: the state it constructs
LoadInner(f, valid) ==
    IF f.kind = "absent"
    THEN DefaultInner
    ELSE LET q == FromJson(f.doc[1])
         IN  [q EXCEPT !.list = Retain(q.list, valid),
                       !.play_history = Retain(q.play_history, valid)]

----------------------------------------------------------------------------
(* did_change: the prediction walk *)

\* intermission_duration.checked_div(intermission_count).unwrap_or_default()
average_intermission(d, c) == IF c = 0 THEN 0 ELSE d \div c

\* the timestamp taken from the front of the history
StartTimestampFront(h, t) == IF Len(h) = 0 THEN t ELSE h[1].predicted_end

\* play_history.back().map(predicted_end).unwrap_or_else(now_utc)
StartTimestamp(h, t) == IF Len(h) = 0 THEN t ELSE h[Len(h)].predicted_end

RECURSIVE Walk(_, _, _, _)
\* the for loop over inner.list: ts is the running timestamp
Walk(l, ts, avg, idx) ==
    IF l = <<>>
    THEN <<>>
    ELSE IF Head(l).song \in idx
         THEN LET t2 == ts + avg + SongDuration(Head(l).song)
              IN  <<[Head(l) EXCEPT !.predicted_end = t2]>> \o Walk(Tail(l), t2, avg, idx)
         ELSE <<Head(l)>> \o Walk(Tail(l), ts, avg, idx)

Recompute(l, h, d, c, t, idx) ==
    Walk(l, StartTimestamp(h, t), average_intermission(d, c), idx)

----------------------------------------------------------------------------
(* The list edits of the handlers *)

\* add without the check against the Valid Song Set
ValidSongUnchecked(song, valid) == TRUE

\* add: self.valid_songs.contains(&song)
ValidSong(song, valid) == song \in valid

\* add: predicted_end given to the new entry before did_change runs
AddPredictedEnd(l, song, t) ==
    IF l = <<>> THEN t ELSE l[Len(l)].predicted_end + SongDuration(song)

\* add that pushes the entry at the front
AddListFront(l, e) == <<e>> \o l

\* add: queue.list.push_back(entry)
AddList(l, e) == Append(l, e)

\* pop_front only once the history is over capacity
HistoryPopLate(h) == IF Len(h) > MAX_PLAY_HISTORY THEN Tail(h) ELSE h

\* play: pop_front when the history is full
HistoryPop(h) == IF Len(h) >= MAX_PLAY_HISTORY THEN Tail(h) ELSE h

\* play: old_playing_idx, taken after the pop and before the push (0 for None)
old_playing_idx(h) == IF h # <<>> THEN Len(h) ELSE 0

\* play: play_history.push_back(new_playing)
HistoryPush(h, e) == Append(h, e)

\* play: duration < Duration::minutes(5) && duration.is_positive()
IntermissionCounts(duration) == duration < FiveMinutes /\ duration > 0

\* remove, remove_if_password_correct: queue.list.remove(queue_index)
RemoveList(l, i) == RemoveAt(l, i)

\* remove_if_password_correct without the comparison of digests
PasswordUnchecked(password, e) == TRUE

\* remove_if_password_correct: digest(password) == password_hash
PasswordCorrect(password, e) == digest(password) = e.password_hash

\* swap that writes one of the two slots only
SwapListOneSlot(l, i, j) == [l EXCEPT ![i] = l[j]]

\* swap: queue.list.swap(entry1, entry2)
SwapList(l, i, j) == SwapAt(l, i, j)

\* move_after without the case distinction on the two positions
MoveAfterListNoShift(l, entry, after_entry) ==
    InsertAt(RemoveAt(l, entry), after_entry + 1, l[entry])

\* move_after: entry and after_entry are the positions found
MoveAfterList(l, entry, after_entry) ==
    IF entry < after_entry
    THEN InsertAt(RemoveAt(l, entry), after_entry, l[entry])
    ELSE InsertAt(RemoveAt(l, entry), after_entry + 1, l[entry])

\* move_top: remove(entry) then push_front
MoveTopList(l, entry) == <<l[entry]>> \o RemoveAt(l, entry)

----------------------------------------------------------------------------
(* Calls, their arguments and results *)

\* an id no entry has
NoSuchId == 0

ArgIds == IdSet(list) \cup {NoSuchId}

\* pairs of ids: the first or the last queued id with every queued id, and
\* pairs with an id that is missing
ArgPairs ==
    {<<NoSuchId, NoSuchId>>}
        \cup (IF list = <<>> THEN {}
              ELSE ({list[1].id, list[Len(list)].id} \X IdSet(list))
                    \cup {<<NoSuchId, list[1].id>>, <<list[Len(list)].id, NoSuchId>>})

Op(name, id, id2, song, pw) ==
    [op |-> name, id |-> id, id2 |-> id2, song |-> song, pw |-> pw,
     res |-> "none", fault |-> "none"]

Done(op, res, fault) == [op EXCEPT !.res = res, !.fault = fault]

NoneSent == [x \in Listeners |-> 0]

\* every step is one call or one environment event
Count == ops < MaxOps /\ ops' = ops + 1

\* faults of the steps of did_change, in the order the steps run
DidChangeFaults == {"none", "search", "create", "write"}

\* write_all on the song log or on the bug log fails
LogFault == "log"

ClosedListeners == {x \in listeners : ~chan[x].open}

\* did_change reaches its Ok(()) when the step f that fails is none of its own
Completes(f) == f \in {"none", LogFault} /\ ClosedListeners = {}

\* a call that returns without touching the state
Return(op, res) ==
    /\ Count
    /\ UNCHANGED taskVars
    /\ lastOp' = [op EXCEPT !.res = res]
    /\ sent' = NoneSent
    /\ UNCHANGED <<valid_songs, index, list, play_history, listeners, nextSub,
                   intermission_duration, intermission_count, file, chan,
                   now, nextId, song_log, bug_log, faults>>

\* a call whose first catalog lookup fails: res is what the handler returns then
LookupFails(op, res) ==
    /\ Count
    /\ UNCHANGED taskVars
    /\ faults < MaxFaults
    /\ faults' = faults + 1
    /\ lastOp' = Done(op, res, "lookup")
    /\ sent' = NoneSent
    /\ UNCHANGED <<valid_songs, index, list, play_history, listeners, nextSub,
                   intermission_duration, intermission_count, file, chan,
                   now, nextId, song_log, bug_log>>

\* did_change(inner, path, index) on the inner state (l, h, d, c) the handler
\* has built.  f is the step that fails; S is the set of listeners the loop
\* over listeners.values() reaches before a send fails.
did_change(l, h, d, c, f, S, op, okRes) ==
    LET l2 == Recompute(l, h, d, c, now, index)
        json == ToJson(l2, h, d, c)
        sendFails == f # "search" /\ ClosedListeners # {}
        reached == IF f = "search" THEN {}
                   ELSE IF sendFails THEN S ELSE listeners
        written == Completes(f)
    IN  /\ Count
        /\ UNCHANGED taskVars
        /\ f \in DidChangeFaults \cup {LogFault}
        /\ f # "none" => faults < MaxFaults
        /\ S \subseteq (listeners \ ClosedListeners)
        /\ ~sendFails => S = {}
        /\ sendFails => f = "none"
        /\ list' = IF f = "search" THEN l ELSE l2
        /\ play_history' = h
        /\ intermission_duration' = d
        /\ intermission_count' = c
        /\ chan' = [x \in Listeners |->
                      IF x \in reached THEN [chan[x] EXCEPT !.last = <<json>>]
                      ELSE chan[x]]
        /\ sent' = [x \in Listeners |-> IF x \in reached THEN 1 ELSE 0]
        /\ file' = IF written THEN FileDoc(json)
                   ELSE IF f = "write" THEN FilePartial
                   ELSE file
        /\ faults' = IF f = "none" THEN faults ELSE faults + 1
        /\ lastOp' = IF written THEN Done(op, okRes, f)
                     ELSE Done(op, "err", IF sendFails THEN "send" ELSE f)
        /\ UNCHANGED <<valid_songs, index, listeners, nextSub, now, bug_log>>

----------------------------------------------------------------------------
(* Construction *)

InitValidSongs == {1, 2}

InitHash == digest("pw1")

\* entries a previous run played or queued, as it persisted them
Played(i, song, pe) == PlaylistEntry(i, song, "ann", InitHash, pe)

History1 == <<Played(3, 1, T0)>>

History3 == <<Played(1, 1, T0 - 400), Played(2, 2, T0 - 200), Played(3, 1, T0)>>

Queued3 == <<Played(4, 1, 0), Played(5, 2, 0), Played(6, 1, 0)>>

Persisted(l, h, d, c) == FileDoc(ToJson(Recompute(l, h, d, c, T0, Songs), h, d, c))

\* what a previous run of the program can have left: the file at persist_path
\* and the songs the catalog resolves now
NoLog == [configured |-> FALSE, records |-> <<>>]
EmptyLog == [configured |-> TRUE, records |-> <<>>]

\* what a previous run of the program can have left: the file at persist_path,
\* the songs the catalog resolves now, and the song log this run is given
InitWorlds ==
    { <<FileAbsent, {1, 2, 3}, NoLog>>,
      <<Persisted(Queued3, <<>>, 0, 0), {1, 2, 3}, EmptyLog>>,
      <<Persisted(Queued3, History1, 0, 0), {1, 3}, NoLog>>,
      <<Persisted(Queued3, History3, 30, 2), {1, 2, 3}, EmptyLog>> }

FreshChan == [x \in Listeners |-> [open |-> TRUE, last |-> <<>>]]

\* no task has called yet
NoCall == [call |-> Op("none", 0, 0, 0, ""), ver |-> 0, json |-> <<>>]

TasksIdle ==
    /\ lock = 0
    /\ pc = [t \in Tasks |-> "idle"]
    /\ local = [t \in Tasks |-> NoCall]

\* Playlist::load
Init ==
    /\ \E w \in InitWorlds : file = w[1] /\ index = w[2] /\ song_log = w[3]
    /\ valid_songs = InitValidSongs
    /\ list = LoadInner(file, valid_songs).list
    /\ play_history = LoadInner(file, valid_songs).play_history
    /\ listeners = LoadInner(file, valid_songs).listeners
    /\ intermission_duration = LoadInner(file, valid_songs).intermission_duration
    /\ intermission_count = LoadInner(file, valid_songs).intermission_count
    /\ chan = FreshChan
    /\ nextSub = 1
    /\ sent = NoneSent
    /\ now = T0
    /\ nextId = 7
    /\ bug_log = <<>>
    /\ faults = 0
    /\ ops = 0
    /\ lastOp = Done(Op("load", 0, 0, 0, ""), "ok", "none")
    /\ TasksIdle
    /\ inbox = [x \in Listeners |-> <<>>]
    /\ order = <<>>

\* the worlds in which listeners are followed
SubscribedWorlds ==
    { <<Persisted(Queued3, <<>>, 0, 0), {1, 2, 3}, EmptyLog>>,
      <<Persisted(Queued3, History1, 0, 0), {1, 3}, NoLog>> }

\* Playlist::load, then subscribe for listener 1 and subscribe for listener 2
InitSubscribed ==
    /\ \E w \in SubscribedWorlds : file = w[1] /\ index = w[2] /\ song_log = w[3]
    /\ valid_songs = InitValidSongs
    /\ list = LoadInner(file, valid_songs).list
    /\ play_history = LoadInner(file, valid_songs).play_history
    /\ intermission_duration = LoadInner(file, valid_songs).intermission_duration
    /\ intermission_count = LoadInner(file, valid_songs).intermission_count
    /\ listeners = {1, 2}
    /\ chan = [x \in Listeners |->
                 IF x \in {1, 2}
                 THEN [open |-> TRUE,
                       last |-> <<ToJson(list, play_history, intermission_duration,
                                         intermission_count)>>]
                 ELSE FreshChan[x]]
    /\ nextSub = 3
    /\ sent = [NoneSent EXCEPT ![2] = 1]
    /\ now = T0
    /\ nextId = 7
    /\ bug_log = <<>>
    /\ faults = 0
    /\ ops = 0
    /\ lastOp = Done(Op("subscribe", 2, 0, 0, ""), "ok", "none")
    /\ TasksIdle
    /\ inbox = [x \in Listeners |-> <<>>]
    /\ order = <<>>

ValidSongSets == {{1, 2}, {1}}

\* serde_json::from_slice(&data)? on a file that holds no complete document
LoadFails ==
    /\ Count
    /\ UNCHANGED taskVars
    /\ file.kind = "partial"
    /\ lastOp' = Done(Op("load", 0, 0, 0, ""), "err", "decode")
    /\ sent' = NoneSent
    /\ UNCHANGED <<valid_songs, index, list, play_history, listeners, nextSub,
                   intermission_duration, intermission_count, file, chan,
                   now, nextId, song_log, bug_log, faults>>

\* Playlist::load returning Ok(Self)
LoadOk(V) ==
    /\ Count
    /\ UNCHANGED taskVars
    /\ file.kind # "partial"
    /\ valid_songs' = V
    /\ list' = LoadInner(file, V).list
    /\ play_history' = LoadInner(file, V).play_history
    /\ listeners' = LoadInner(file, V).listeners
    /\ intermission_duration' = LoadInner(file, V).intermission_duration
    /\ intermission_count' = LoadInner(file, V).intermission_count
    /\ chan' = FreshChan
    /\ sent' = NoneSent
    /\ lastOp' = Done(Op("load", 0, 0, 0, ""), "ok", "none")
    /\ nextSub' = 1
    /\ UNCHANGED <<index, file, now, nextId, song_log, bug_log, faults>>

\* the process is restarted: Playlist::load with the Valid Song Set V
Load(V) == IF file.kind = "partial" THEN LoadFails ELSE LoadOk(V)

----------------------------------------------------------------------------
(* Environment *)

\* the clock advances
Tick(d) ==
    /\ Count
    /\ UNCHANGED taskVars
    /\ now' = now + d
    /\ sent' = NoneSent
    /\ lastOp' = Done(Op("tick", 0, 0, 0, ""), "ok", "none")
    /\ UNCHANGED <<valid_songs, index, list, play_history, listeners, nextSub,
                   intermission_duration, intermission_count, file, chan,
                   nextId, song_log, bug_log, faults>>

\* the receiver of listener x is dropped: sends to it fail from now on
CloseChannel(x) ==
    /\ Count
    /\ UNCHANGED taskVars
    /\ faults < MaxFaults
    /\ x <= nextSub
    /\ chan[x].open
    /\ faults' = faults + 1
    /\ chan' = [chan EXCEPT ![x].open = FALSE]
    /\ sent' = NoneSent
    /\ lastOp' = Done(Op("close", x, 0, 0, ""), "ok", "none")
    /\ UNCHANGED <<valid_songs, index, list, play_history, listeners, nextSub,
                   intermission_duration, intermission_count, file,
                   now, nextId, song_log, bug_log>>

----------------------------------------------------------------------------
(* Playlist's methods *)

subscribe(x) ==
    LET op == Op("subscribe", x, 0, 0, "")
        json == ToJson(list, play_history, intermission_duration, intermission_count)
    IN  /\ Count
        /\ UNCHANGED taskVars
        /\ x = nextSub
        /\ nextSub' = nextSub + 1
        /\ IF chan[x].open
           THEN /\ chan' = [chan EXCEPT ![x].last = <<json>>]
                /\ sent' = [NoneSent EXCEPT ![x] = 1]
                /\ listeners' = listeners \cup {x}
                /\ lastOp' = Done(op, "ok", "none")
           ELSE /\ lastOp' = Done(op, "err", "send")
                /\ sent' = NoneSent
                /\ UNCHANGED <<chan, listeners>>
        /\ UNCHANGED <<valid_songs, index, list, play_history,
                       intermission_duration, intermission_count, file,
                       now, nextId, song_log, bug_log, faults>>

unsubscribe(x) ==
    /\ Count
    /\ UNCHANGED taskVars
    /\ listeners' = listeners \ {x}
    /\ UNCHANGED nextSub
    /\ sent' = NoneSent
    /\ lastOp' = Done(Op("unsubscribe", x, 0, 0, ""), "ok", "none")
    /\ UNCHANGED <<valid_songs, index, list, play_history,
                   intermission_duration, intermission_count, file, chan,
                   now, nextId, song_log, bug_log, faults>>

add(song, singer, password, f, S) ==
    LET op == Op("add", 0, 0, song, password)
        e == PlaylistEntry(nextId, song, singer, digest(password),
                           AddPredictedEnd(list, song, now))
    IN  IF ~ValidSong(song, valid_songs)
        THEN f = "none" /\ S = {} /\ Return(op, "rejected")
        ELSE IF f = "lookup"
        THEN S = {} /\ LookupFails(op, "err")
        ELSE IF song \notin index
        THEN f = "none" /\ S = {} /\ Return(Done(op, "", "unresolved"), "err")
        ELSE /\ nextId' = nextId + 1
             /\ f # LogFault
             /\ UNCHANGED song_log
             /\ did_change(AddList(list, e), play_history, intermission_duration,
                           intermission_count, f, S, [op EXCEPT !.id = nextId], "ok")

play(id, f, S) ==
    LET op == Op("play", id, 0, 0, "")
        entry == find_song_in_queue(list, id)
        h1 == HistoryPop(play_history)
        old == old_playing_idx(h1)
        h2 == HistoryPush(h1, list[entry])
        duration == now - h2[old].predicted_end
        counts == old # 0 /\ IntermissionCounts(duration)
        song == list[entry].song
        record == <<Rfc3339(now), Artist(song), Title(song)>>
        logged == song_log.configured /\ song \in index
    IN  IF entry = 0
        THEN f = "none" /\ S = {} /\ Return(op, "false")
        ELSE IF f = "lookup"
        THEN S = {} /\ LookupFails(op, "true")
        ELSE /\ did_change(RemoveAt(list, entry), h2,
                           IF counts THEN intermission_duration + duration
                                     ELSE intermission_duration,
                           IF counts THEN intermission_count + 1
                                     ELSE intermission_count,
                           f, S, op, "true")
             /\ f = LogFault => logged
             /\ song_log' = IF Completes(f) /\ logged /\ f # LogFault
                             THEN [song_log EXCEPT !.records = Append(@, record)]
                             ELSE song_log
             /\ UNCHANGED nextId

remove(id, f, S) ==
    LET op == Op("remove", id, 0, 0, "")
        queue_index == find_song_in_queue(list, id)
    IN  IF queue_index = 0
        THEN f = "none" /\ S = {} /\ Return(op, "false")
        ELSE /\ did_change(RemoveList(list, queue_index), play_history,
                           intermission_duration, intermission_count,
                           f, S, op, "true")
             /\ f # LogFault
             /\ UNCHANGED <<nextId, song_log>>

remove_if_password_correct(id, password, f, S) ==
    LET op == Op("remove_if_password_correct", id, 0, 0, password)
        queue_index == find_song_in_queue(list, id)
    IN  IF queue_index # 0 /\ PasswordCorrect(password, list[queue_index])
        THEN /\ did_change(RemoveList(list, queue_index), play_history,
                           intermission_duration, intermission_count,
                           f, S, op, "true")
             /\ f # LogFault
             /\ UNCHANGED <<nextId, song_log>>
        ELSE f = "none" /\ S = {} /\ Return(op, "false")

swap(id1, id2, f, S) ==
    LET op == Op("swap", id1, id2, 0, "")
        entry1 == find_song_in_queue(list, id1)
        entry2 == find_song_in_queue(list, id2)
    IN  IF id1 = id2 \/ entry1 = 0 \/ entry2 = 0
        THEN f = "none" /\ S = {} /\ Return(op, "false")
        ELSE /\ did_change(SwapList(list, entry1, entry2), play_history,
                           intermission_duration, intermission_count,
                           f, S, op, "true")
             /\ f # LogFault
             /\ UNCHANGED <<nextId, song_log>>

move_after(id, after, f, S) ==
    LET op == Op("move_after", id, after, 0, "")
        entry == find_song_in_queue(list, id)
        after_entry == find_song_in_queue(list, after)
    IN  IF id = after \/ entry = 0 \/ after_entry = 0
        THEN f = "none" /\ S = {} /\ Return(op, "false")
        ELSE /\ did_change(MoveAfterList(list, entry, after_entry), play_history,
                           intermission_duration, intermission_count,
                           f, S, op, "true")
             /\ f # LogFault
             /\ UNCHANGED <<nextId, song_log>>

move_top(id, f, S) ==
    LET op == Op("move_top", id, 0, 0, "")
        entry == find_song_in_queue(list, id)
    IN  IF entry = 0
        THEN f = "none" /\ S = {} /\ Return(op, "false")
        ELSE /\ did_change(MoveTopList(list, entry), play_history,
                           intermission_duration, intermission_count,
                           f, S, op, "true")
             /\ f # LogFault
             /\ UNCHANGED <<nextId, song_log>>

report_bug(song, report, f) ==
    LET op == Op("report_bug", 0, 0, song, "")
        record == <<Rfc3339(now), Artist(song), Title(song), report>>
    IN  IF ~ValidSong(song, valid_songs)
        THEN f = "none" /\ Return(op, "ok")
        ELSE IF f = "lookup"
        THEN LookupFails(op, "err")
        ELSE IF song \notin index
        THEN f = "none" /\ Return(Done(op, "", "unresolved"), "ok")
        ELSE /\ Count
             /\ UNCHANGED taskVars
             /\ f \in {"none", LogFault}
             /\ f # "none" => faults < MaxFaults
             /\ bug_log' = IF f = "none" THEN Append(bug_log, record) ELSE bug_log
             /\ faults' = IF f = "none" THEN faults ELSE faults + 1
             /\ lastOp' = Done(op, "ok", f)
             /\ sent' = NoneSent
             /\ UNCHANGED <<valid_songs, index, list, play_history, listeners,
                            nextSub, intermission_duration, intermission_count,
                            file, chan, now, nextId, song_log>>

----------------------------------------------------------------------------

Faults == DidChangeFaults \cup {"lookup", LogFault}

\* the faults the environment can still produce
FaultChoices == IF faults < MaxFaults THEN Faults ELSE {"none"}

\* the listeners a failing loop of sends can have reached
SendPrefixes ==
    IF ClosedListeners = {} THEN {{}} ELSE SUBSET (listeners \ ClosedListeners)

\* load returned Err: there is no Playlist until a load succeeds
Down == lastOp.op = "load" /\ lastOp.res = "err"

Running == ops < MaxOps /\ ~Down

Next ==
    \/ ops < MaxOps /\ \E V \in ValidSongSets : Load(V)
    \/ Running /\ \E d \in TickSteps : Tick(d)
    \/ Running /\ \E x \in Listeners : CloseChannel(x)
    \/ Running /\ \E x \in Listeners : subscribe(x)
    \/ Running /\ \E x \in Listeners : x <= nextSub /\ unsubscribe(x)
    \/ Running /\ \E song \in Songs, singer \in Singers, password \in AddPasswords,
                     f \in FaultChoices, S \in SendPrefixes :
                        add(song, singer, password, f, S)
    \/ Running /\ \E id \in ArgIds, f \in FaultChoices, S \in SendPrefixes :
                        play(id, f, S)
    \/ Running /\ \E id \in ArgIds, f \in FaultChoices, S \in SendPrefixes :
                        remove(id, f, S)
    \/ Running /\ \E id \in ArgIds, password \in Passwords, f \in FaultChoices,
                     S \in SendPrefixes :
                        remove_if_password_correct(id, password, f, S)
    \/ Running /\ \E ids \in ArgPairs, f \in FaultChoices, S \in SendPrefixes :
                        swap(ids[1], ids[2], f, S)
    \/ Running /\ \E ids \in ArgPairs, f \in FaultChoices, S \in SendPrefixes :
                        move_after(ids[1], ids[2], f, S)
    \/ Running /\ \E id \in ArgIds, f \in FaultChoices, S \in SendPrefixes :
                        move_top(id, f, S)
    \/ Running /\ \E song \in Songs, report \in Reports, f \in FaultChoices :
                        report_bug(song, report, f)

Spec == Init /\ [][Next]_vars

\* the same calls, followed from the state with two listeners registered
SpecSubscribed == InitSubscribed /\ [][Next]_vars

----------------------------------------------------------------------------
(* Tasks: the calls split at their await points *)

\* the write guard is taken whatever the lock's state
LockIgnored(lk) == TRUE

\* self.song_queue.write().await returns once no task holds the guard
LockFree(lk) == lk = 0

\* the mutations the tasks make
TaskCalls ==
    { Op("add", 0, 0, 1, "pw2"),
      Op("play", 4, 0, 0, ""),
      Op("remove", 5, 0, 0, ""),
      Op("remove_if_password_correct", 5, 0, 0, "pw1"),
      Op("swap", 4, 6, 0, ""),
      Op("move_after", 4, 6, 0, ""),
      Op("move_top", 6, 0, 0, "") }

\* the handler of call c gets as far as did_change
Applies(c) ==
    LET i == find_song_in_queue(list, c.id)
        j == find_song_in_queue(list, c.id2)
    IN  CASE c.op = "add" -> ValidSong(c.song, valid_songs) /\ c.song \in index
          [] c.op = "remove_if_password_correct" ->
                i # 0 /\ PasswordCorrect(c.pw, list[i])
          [] c.op \in {"swap", "move_after"} -> c.id # c.id2 /\ i # 0 /\ j # 0
          [] OTHER -> i # 0

\* what the handler returns when it does not get to did_change
Refusal(c) ==
    CASE c.op = "add" -> IF ValidSong(c.song, valid_songs) THEN "err" ELSE "rejected"
      [] OTHER -> "false"

\* the state the handler of call c has built when it calls did_change
Edited(c) ==
    LET i == find_song_in_queue(list, c.id)
        j == find_song_in_queue(list, c.id2)
        keep == [l |-> list, h |-> play_history,
                 d |-> intermission_duration, c |-> intermission_count]
        h1 == HistoryPop(play_history)
        old == old_playing_idx(h1)
        h2 == HistoryPush(h1, list[i])
        duration == now - h2[old].predicted_end
        counts == old # 0 /\ IntermissionCounts(duration)
    IN  CASE c.op = "add" ->
                [keep EXCEPT !.l = AddList(list,
                    PlaylistEntry(nextId, c.song, CHOOSE n \in Singers : TRUE,
                                  digest(c.pw), AddPredictedEnd(list, c.song, now)))]
          [] c.op = "play" ->
                [l |-> RemoveAt(list, i), h |-> h2,
                 d |-> IF counts THEN intermission_duration + duration
                       ELSE intermission_duration,
                 c |-> IF counts THEN intermission_count + 1
                       ELSE intermission_count]
          [] c.op \in {"remove", "remove_if_password_correct"} ->
                [keep EXCEPT !.l = RemoveList(list, i)]
          [] c.op = "swap" -> [keep EXCEPT !.l = SwapList(list, i, j)]
          [] c.op = "move_after" -> [keep EXCEPT !.l = MoveAfterList(list, i, j)]
          [] c.op = "move_top" -> [keep EXCEPT !.l = MoveTopList(list, i)]

\* the call of task t returns
Finish(t, c, res, fault) ==
    /\ pc' = [pc EXCEPT ![t] = "done"]
    /\ local' = [local EXCEPT ![t].call = Done(c, res, fault)]

\* a handler up to the sends of did_change: the write guard, the edit, the
\* batch search, the prediction walk and serde_json::to_string
TaskCall(t, c, f) ==
    /\ pc[t] = "idle"
    /\ LockFree(lock)
    /\ f \in {"none", "search"}
    /\ f # "none" => faults < MaxFaults
    /\ IF ~Applies(c)
       THEN /\ f = "none"
            /\ Finish(t, c, Refusal(c), "none")
            /\ UNCHANGED <<list, play_history, intermission_duration,
                           intermission_count, nextId, faults, lock, order>>
       ELSE LET e == Edited(c)
                l2 == IF f = "search" THEN e.l
                      ELSE Recompute(e.l, e.h, e.d, e.c, now, index)
                json == ToJson(l2, e.h, e.d, e.c)
                c2 == [c EXCEPT !.id = IF c.op = "add" THEN nextId ELSE c.id,
                                !.song = IF c.op = "play"
                                         THEN list[find_song_in_queue(list, c.id)].song
                                         ELSE c.song]
            IN  /\ list' = l2
                /\ play_history' = e.h
                /\ intermission_duration' = e.d
                /\ intermission_count' = e.c
                /\ nextId' = IF c.op = "add" THEN nextId + 1 ELSE nextId
                /\ order' = Append(order, json)
                /\ IF f = "search"
                   THEN /\ faults' = faults + 1
                        /\ Finish(t, c2, "err", f)
                        /\ UNCHANGED lock
                   ELSE /\ lock' = t
                        /\ pc' = [pc EXCEPT ![t] = "notify"]
                        /\ local' = [local EXCEPT ![t] =
                                [call |-> c2, ver |-> Len(order) + 1, json |-> <<json>>]]
                        /\ UNCHANGED faults
    /\ UNCHANGED <<valid_songs, index, listeners, nextSub, file, chan, sent, now,
                   song_log, bug_log, ops, lastOp, inbox>>

\* did_change: for listener in inner.listeners.values() { listener.send(json)? }
TaskNotify(t, S) ==
    LET msg == [ver |-> local[t].ver, json |-> local[t].json]
        reached == IF ClosedListeners = {} THEN listeners ELSE S
    IN  /\ pc[t] = "notify"
        /\ S \subseteq (listeners \ ClosedListeners)
        /\ inbox' = [x \in Listeners |->
                        IF x \in reached THEN Append(inbox[x], msg) ELSE inbox[x]]
        /\ IF ClosedListeners = {}
           THEN /\ S = {}
                /\ pc' = [pc EXCEPT ![t] = "create"]
                /\ UNCHANGED <<lock, local>>
           ELSE /\ Finish(t, local[t].call, "err", "send")
                /\ lock' = 0
        /\ UNCHANGED <<valid_songs, index, list, play_history, listeners, nextSub,
                       intermission_duration, intermission_count, file, chan,
                       sent, now, nextId, song_log, bug_log, faults, ops, lastOp,
                       order>>

\* did_change: File::create(path).await?, which truncates the file
TaskCreate(t, f) ==
    /\ pc[t] = "create"
    /\ f \in {"none", "create"}
    /\ f # "none" => faults < MaxFaults
    /\ IF f = "none"
       THEN /\ file' = FilePartial
            /\ pc' = [pc EXCEPT ![t] = "write"]
            /\ UNCHANGED <<lock, local, faults>>
       ELSE /\ faults' = faults + 1
            /\ Finish(t, local[t].call, "err", f)
            /\ lock' = 0
            /\ UNCHANGED file
    /\ UNCHANGED <<valid_songs, index, list, play_history, listeners, nextSub,
                   intermission_duration, intermission_count, chan, sent, now,
                   nextId, song_log, bug_log, ops, lastOp, inbox, order>>

\* did_change: file.write_all(json).await?, then the handler's return (for
\* play after the record of the song log), which drops the write guard
TaskWrite(t, f) ==
    LET c == local[t].call
        record == <<Rfc3339(now), Artist(c.song), Title(c.song)>>
        logged == c.op = "play" /\ song_log.configured /\ c.song \in index
    IN  /\ pc[t] = "write"
        /\ f \in {"none", "write", LogFault}
        /\ f # "none" => faults < MaxFaults
        /\ f = LogFault => logged
        /\ file' = IF f = "write" THEN FilePartial ELSE FileDoc(local[t].json[1])
        /\ song_log' = IF logged /\ f = "none"
                        THEN [song_log EXCEPT !.records = Append(@, record)]
                        ELSE song_log
        /\ faults' = IF f = "none" THEN faults ELSE faults + 1
        /\ Finish(t, c, IF f = "write" THEN "err"
                        ELSE IF c.op = "add" THEN "ok" ELSE "true", f)
        /\ lock' = 0
        /\ UNCHANGED <<valid_songs, index, list, play_history, listeners, nextSub,
                       intermission_duration, intermission_count, chan, sent, now,
                       nextId, bug_log, ops, lastOp, inbox, order>>

\* subscribe: no await between the write guard and the return
TaskSubscribe(t, x) ==
    LET c == Op("subscribe", x, 0, 0, "")
        msg == [ver |-> Len(order),
                json |-> <<ToJson(list, play_history, intermission_duration,
                                  intermission_count)>>]
    IN  /\ pc[t] = "idle"
        /\ LockFree(lock)
        /\ x = nextSub
        /\ nextSub' = nextSub + 1
        /\ IF chan[x].open
           THEN /\ inbox' = [inbox EXCEPT ![x] = Append(@, msg)]
                /\ listeners' = listeners \cup {x}
                /\ Finish(t, c, "ok", "none")
           ELSE /\ Finish(t, c, "err", "send")
                /\ UNCHANGED <<inbox, listeners>>
        /\ UNCHANGED <<valid_songs, index, list, play_history,
                       intermission_duration, intermission_count, file, chan,
                       sent, now, nextId, song_log, bug_log, faults, ops, lastOp,
                       lock, order>>

\* unsubscribe: no await between the write guard and the return
TaskUnsubscribe(t, x) ==
    /\ pc[t] = "idle"
    /\ LockFree(lock)
    /\ x < nextSub
    /\ listeners' = listeners \ {x}
    /\ Finish(t, Op("unsubscribe", x, 0, 0, ""), "ok", "none")
    /\ UNCHANGED <<valid_songs, index, list, play_history, nextSub,
                   intermission_duration, intermission_count, file, chan,
                   sent, now, nextId, song_log, bug_log, faults, ops, lastOp,
                   lock, inbox, order>>

\* the receiver of listener x is dropped while the tasks run
TaskCloseChannel(x) ==
    /\ faults < MaxFaults
    /\ x <= nextSub
    /\ chan[x].open
    /\ faults' = faults + 1
    /\ chan' = [chan EXCEPT ![x].open = FALSE]
    /\ UNCHANGED <<valid_songs, index, list, play_history, listeners, nextSub,
                   intermission_duration, intermission_count, file, sent, now,
                   nextId, song_log, bug_log, ops, lastOp, taskVars>>

\* the world in which the tasks are followed
TaskWorld == <<Persisted(Queued3, History3, 30, 2), {1, 2, 3}, EmptyLog>>

\* Playlist::load, then subscribe for listener 1; no task has called yet
InitTasks ==
    /\ file = TaskWorld[1] /\ index = TaskWorld[2] /\ song_log = TaskWorld[3]
    /\ valid_songs = InitValidSongs
    /\ list = LoadInner(file, valid_songs).list
    /\ play_history = LoadInner(file, valid_songs).play_history
    /\ intermission_duration = LoadInner(file, valid_songs).intermission_duration
    /\ intermission_count = LoadInner(file, valid_songs).intermission_count
    /\ listeners = {1}
    /\ chan = [FreshChan EXCEPT ![1].last = <<file.doc[1]>>]
    /\ nextSub = 2
    /\ sent = [NoneSent EXCEPT ![1] = 1]
    /\ now = T0
    /\ nextId = 7
    /\ bug_log = <<>>
    /\ faults = 0
    /\ ops = 0
    /\ lastOp = Done(Op("subscribe", 1, 0, 0, ""), "ok", "none")
    /\ TasksIdle
    /\ order = <<ToJson(list, play_history, intermission_duration,
                        intermission_count)>>
    /\ inbox = [x \in Listeners |->
                  IF x = 1 THEN <<[ver |-> 1, json |-> <<order[1]>>]>> ELSE <<>>]

NextTasks ==
    \/ \E t \in Tasks, c \in TaskCalls, f \in {"none", "search"} : TaskCall(t, c, f)
    \/ \E t \in Tasks, S \in SUBSET Listeners : TaskNotify(t, S)
    \/ \E t \in Tasks, f \in {"none", "create"} : TaskCreate(t, f)
    \/ \E t \in Tasks, f \in {"none", "write", LogFault} : TaskWrite(t, f)
    \/ \E t \in Tasks, x \in Listeners : TaskSubscribe(t, x)
    \/ \E t \in Tasks, x \in Listeners : TaskUnsubscribe(t, x)
    \/ \E x \in Listeners : TaskCloseChannel(x)

\* concurrent tasks, each making one call, interleaved at their await points
SpecTasks == InitTasks /\ [][NextTasks]_vars

----------------------------------------------------------------------------
(* Vocabulary of the properties *)

Mutations ==
    {"add", "play", "remove", "remove_if_password_correct", "swap",
     "move_after", "move_top"}

Success == {"ok", "true"}

NoEffect == {"false", "rejected"}

\* the document of the in-memory state
Snapshot == ToJson(list, play_history, intermission_duration, intermission_count)

Without(s, x) == SelectSeq(s, LAMBDA y : y # x)

Pos(s, x) == CHOOSE i \in 1..Len(s) : s[i] = x

NoDuplicates(s) == \A i, j \in 1..Len(s) : s[i] = s[j] => i = j

Exchanged(s, a, b) ==
    [i \in 1..Len(s) |-> IF s[i] = a THEN b ELSE IF s[i] = b THEN a ELSE s[i]]

PlacedAfter(s, x, a) ==
    LET rest == Without(s, x)
        k == Pos(rest, a)
    IN  SubSeq(rest, 1, k) \o <<x>> \o SubSeq(rest, k + 1, Len(rest))

\* the order of ids a call implies when it takes effect
Implied(s, op) ==
    CASE op.op = "add" -> Append(s, op.id)
      [] op.op = "remove" -> Without(s, op.id)
      [] op.op = "swap" -> Exchanged(s, op.id, op.id2)
      [] op.op = "move_after" -> PlacedAfter(s, op.id, op.id2)
      [] op.op = "move_top" -> <<op.id>> \o Without(s, op.id)

----------------------------------------------------------------------------
(* C1 *)

C1Ops == {"add", "remove", "swap", "move_after", "move_top"}

C1_Step ==
    lastOp'.op \in C1Ops =>
        LET was == Ids(list)
            is == Ids(list')
            r == lastOp'.res
        IN  /\ r \in Success => is = Implied(was, lastOp')
            /\ r \in NoEffect => is = was
            /\ r = "err" => is \in {was, Implied(was, lastOp')}
            /\ NoDuplicates(is)
            /\ (lastOp'.op = "add" /\ is # was) =>
                    lastOp'.id \notin (IdSet(list) \cup IdSet(play_history))

\* C1: Submit, Remove, Swap, MoveAfter and MoveToFront leave the queue holding
\* every id exactly once, in the order the call implies: Submit appends the new
\* id at the tail, Remove deletes only the named id, Swap, MoveAfter and
\* MoveToFront permute the ids, and a call that reports "no such effect"
\* leaves the order as it was.
C1_QueueOrder == [][C1_Step]_vars

\* a Swap of the first and last of three queued entries has taken effect
C1_Witness ==
    /\ lastOp.op = "swap" /\ lastOp.res = "true"
    /\ lastOp.id = 4 /\ lastOp.id2 = 6
    /\ Ids(list) = <<6, 5, 4>>

----------------------------------------------------------------------------
(* C2 *)

\* everything a caller or a listener can observe
Observable ==
    <<list, play_history, intermission_duration, intermission_count, file,
      chan, listeners>>

C2_Step ==
    lastOp'.op = "move_after" =>
        LET id == lastOp'.id
            afterId == lastOp'.id2
            was == Ids(list)
            is == Ids(list')
        IN  IF id # afterId /\ id \in IdSet(list) /\ afterId \in IdSet(list)
            THEN /\ lastOp'.res \in {"true", "err"}
                 /\ lastOp'.res = "err" => lastOp'.fault # "none"
                 /\ lastOp'.res = "true" =>
                        /\ Pos(is, id) = Pos(is, afterId) + 1
                        /\ Without(is, id) = Without(was, id)
                        /\ Len(is) = Len(was)
            ELSE /\ lastOp'.res = "false"
                 /\ UNCHANGED Observable

\* C2: MoveAfter(id, afterId) on two distinct queued ids returns true (unless
\* an I/O fault makes it return an error) and leaves id immediately after
\* afterId, whichever of the two came first, with the other entries in their
\* order; with a missing id or id = afterId it returns false and changes nothing.
C2_MoveAfter == [][C2_Step]_vars

\* id preceded afterId, with an entry between them, and now follows it
C2_Witness ==
    /\ lastOp.op = "move_after" /\ lastOp.res = "true"
    /\ lastOp.id = 4 /\ lastOp.id2 = 6
    /\ Ids(list) = <<5, 6, 4>>

----------------------------------------------------------------------------
(* C3 *)

Entry(l, id) == l[Pos(Ids(l), id)]

C3_Step ==
    /\ Len(play_history) <= MAX_PLAY_HISTORY
    /\ Len(play_history') <= MAX_PLAY_HISTORY
    /\ lastOp'.op = "play" =>
          IF lastOp'.id \in IdSet(list) /\ lastOp'.id \notin IdSet(list')
          THEN LET kept == IF Len(play_history) = MAX_PLAY_HISTORY
                           THEN Tail(play_history) ELSE play_history
               IN  /\ Ids(play_history') = Append(Ids(kept), lastOp'.id)
                   /\ \A i \in 1..Len(kept) : play_history'[i] = kept[i]
                   /\ play_history'[Len(play_history')] = Entry(list, lastOp'.id)
          ELSE play_history' = play_history

\* C3: the play history never holds more than 3 entries, and an Advance that
\* moves an entry puts it last, behind the entries played before it in their
\* order, evicting the oldest one when the history was full.
C3_History == [][C3_Step]_vars

\* an Advance on a full history has evicted the oldest entry
C3_Witness ==
    /\ lastOp.op = "play" /\ lastOp.res = "true"
    /\ Ids(play_history) = <<2, 3, 4>>

----------------------------------------------------------------------------
(* C4 *)

AllResolve == \A i \in 1..Len(list) : list[i].song \in index

NonDecreasing(l) ==
    \A i \in 1..(Len(l) - 1) : l[i].predicted_end <= l[i + 1].predicted_end

\* C4: in every state, if the catalog resolves the songs of all pending
\* entries, their predicted end times are non-decreasing in queue order.
C4_Claim == AllResolve => NonDecreasing(list)

----------------------------------------------------------------------------
(* C5 *)

C5_Step ==
    (lastOp'.op = "add" /\ lastOp'.song \notin valid_songs) =>
        /\ lastOp'.res = "rejected"
        /\ UNCHANGED Observable
        /\ sent' = NoneSent

\* C5: Submit with a song outside the Valid Song Set returns "rejected" and
\* changes neither the queue, the history, the statistics, the file nor what
\* any listener has received.
C5_RejectedSubmit == [][C5_Step]_vars

\* a Submit was rejected while a listener was registered and a file existed
C5_Witness ==
    /\ lastOp.op = "add" /\ lastOp.res = "rejected"
    /\ lastOp.song \notin valid_songs /\ lastOp.song \in index
    /\ listeners # {}
    /\ file.kind = "doc"

----------------------------------------------------------------------------
(* C6 *)

C6_Step ==
    lastOp'.op = "remove_if_password_correct" =>
        LET id == lastOp'.id
        IN  IF id \in IdSet(list)
               /\ Entry(list, id).password_hash = digest(lastOp'.pw)
            THEN /\ Ids(list') = Without(Ids(list), id)
                 /\ Len(list') = Len(list) - 1
                 /\ lastOp'.res \in {"true", "err"}
                 /\ lastOp'.res = "err" => lastOp'.fault # "none"
            ELSE /\ lastOp'.res = "false"
                 /\ UNCHANGED Observable
                 /\ sent' = NoneSent

\* C6: RemoveWithSecret removes the entry and returns true (unless an I/O
\* fault makes it return an error) when the id is queued and the digest of
\* the secret is the stored digest; with another secret or a missing id it
\* returns false and changes nothing.
C6_RemoveWithSecret == [][C6_Step]_vars

\* an entry submitted with one secret was removed with that secret
C6_Witness ==
    /\ lastOp.op = "remove_if_password_correct" /\ lastOp.res = "true"
    /\ lastOp.id = 7 /\ lastOp.pw = "pw2"
    /\ 7 \notin IdSet(list)

----------------------------------------------------------------------------
(* C7 *)

C7_Step ==
    /\ (lastOp'.op = "subscribe" /\ lastOp'.res = "ok") =>
            /\ sent' = [NoneSent EXCEPT ![lastOp'.id] = 1]
            /\ chan'[lastOp'.id].last = <<Snapshot>>
    /\ (lastOp'.op \in Mutations /\ lastOp'.res \in Success) =>
            \A x \in Listeners :
                IF x \in listeners
                THEN sent'[x] = 1 /\ chan'[x].last = <<Snapshot'>>
                ELSE sent'[x] = 0
    /\ (lastOp'.op \in Mutations /\ lastOp'.res \notin Success) =>
            sent' = NoneSent

\* C7: a subscribing listener receives exactly one snapshot, the state at that
\* time; every later successful mutation sends each registered listener exactly
\* one snapshot, the new state; a call that did not succeed sends none.
C7_Claim == [][C7_Step]_vars

----------------------------------------------------------------------------
(* C8 *)

C8_Step ==
    (lastOp'.op = "play" /\ lastOp'.id \in IdSet(list) /\ play_history # <<>>) =>
        LET delta == now - play_history[Len(play_history)].predicted_end
        IN  IF 0 <= delta /\ delta < FiveMinutes
            THEN /\ intermission_count' = intermission_count + 1
                 /\ intermission_duration' = intermission_duration + delta
            ELSE UNCHANGED <<intermission_count, intermission_duration>>

\* C8: an Advance on a non-empty history measures delta = now - predicted end
\* of the entry that was last in the history, and adds it to the statistics
\* (count + 1, cumulative + delta) exactly when 0 <= delta < 5 minutes.
C8_Claim == [][C8_Step]_vars

----------------------------------------------------------------------------
(* C9 *)

\* the last call was a mutation whose apply-change step wrote the file
PersistedNow ==
    /\ lastOp.op \in Mutations
    /\ lastOp.res \in Success
    /\ lastOp.fault = "none"

C9_Step ==
    (PersistedNow /\ lastOp'.op = "load") =>
        LET InSet(e) == e.song \in valid_songs'
        IN  /\ list' = SelectSeq(list, InSet)
            /\ play_history' = SelectSeq(play_history, InSet)
            /\ intermission_duration' = intermission_duration
            /\ intermission_count' = intermission_count
            /\ valid_songs' = valid_songs =>
                    list' = list /\ play_history' = play_history

\* C9: loading what a mutation has persisted gives back the queue, the history
\* and the statistics: unchanged with the same Valid Song Set, and with another
\* set minus exactly the entries whose song is outside it, the rest in order.
C9_RoundTrip == [][C9_Step]_vars

\* a Submit was persisted, and the load that followed filtered an entry out
C9_Witness ==
    /\ lastOp.op = "load"
    /\ nextId = 8
    /\ valid_songs = {1}
    /\ file.kind = "doc"
    /\ Len(list) < Len(file.doc[1].list)
    /\ Len(list) > 0

----------------------------------------------------------------------------
(* C10 *)

\* C10: right after a structural mutation has returned success, the file, the
\* last snapshot of every registered listener and the in-memory state agree.
C10_Claim ==
    (lastOp.op \in Mutations /\ lastOp.res \in Success) =>
        /\ file = FileDoc(Snapshot)
        /\ \A x \in listeners : chan[x].last = <<Snapshot>>

----------------------------------------------------------------------------
(* C11 *)

\* the external I/O faults of a mutation: the catalog, a listener's channel,
\* the disk
IOFaults == {"lookup", "search", "send", "create", "write"}

InMemory == <<list, play_history, intermission_duration, intermission_count>>

C11_Step ==
    (lastOp'.op \in Mutations /\ lastOp'.fault \in IOFaults) =>
        /\ lastOp'.res = "err"
        /\ UNCHANGED InMemory

\* C11: a mutation that meets an external I/O fault (catalog lookup, listener
\* send or disk write) returns an error and leaves the pending queue, the play
\* history and the intermission statistics as they were before the call.
C11_Claim == [][C11_Step]_vars

----------------------------------------------------------------------------
(* C12 *)

\* the listeners whose channel still accepts data
OpenListeners == {x \in listeners : chan[x].open}

C12_Step ==
    (lastOp'.op \in Mutations /\ lastOp'.fault = "send") =>
        \A x \in OpenListeners :
            sent'[x] = 1 /\ chan'[x].last = <<Snapshot'>>

\* C12: when the apply-change step of a mutation meets a registered listener
\* whose channel no longer accepts data, every other registered listener still
\* receives the new snapshot of that mutation.
C12_Claim == [][C12_Step]_vars

----------------------------------------------------------------------------
(* C13 *)

\* a complete document: what load can read back
Complete(f) == f.kind = "doc"

C13_Step ==
    /\ file' = file \/ file' = FileDoc(Snapshot')
    /\ Complete(file) => Complete(file')
    /\ lastOp'.op = "load" => lastOp'.res = "ok"

\* C13: the file is at every instant the previous complete snapshot or the new
\* complete snapshot, never an empty or partly written document, so that a
\* load always succeeds with one of the two.
C13_Claim == [][C13_Step]_vars

----------------------------------------------------------------------------
(* C14 *)

C14_Step ==
    lastOp'.op = "report_bug" =>
        /\ lastOp'.res = "ok"
        /\ UNCHANGED <<list, play_history, intermission_duration,
                       intermission_count, file, chan, listeners>>
        /\ sent' = NoneSent

\* C14: ReportBug returns success for every song and text, whatever the
\* catalog and the bug log do, and changes neither the pending queue, the
\* play history, the statistics, the file nor what any listener has received.
C14_Claim == [][C14_Step]_vars

----------------------------------------------------------------------------
(* C15 *)

\* task t is between taking the write guard and dropping it
InSection(t) == pc[t] \in {"notify", "create", "write"}

\* listener x has been sent message m on top of what it had
Delivered(x, m) == inbox'[x] = Append(inbox[x], m)

C15_Step ==
    /\ \A t, u \in Tasks : (InSection(t)' /\ InSection(u)') => t = u
    /\ \A x \in Listeners :
          \/ inbox'[x] = inbox[x]
          \/ \E m \in {inbox'[x][Len(inbox'[x])]} :
                /\ Delivered(x, m)
                /\ m.ver = Len(order')
                /\ m.json = <<order'[m.ver]>>
                /\ \A i \in 1..Len(inbox[x]) : inbox[x][i].ver < m.ver
                /\ \A y \in Listeners : \A i \in 1..Len(inbox[y]) :
                        inbox[y][i].ver <= m.ver

\* C15: under any interleaving of tasks that mutate, subscribe and unsubscribe,
\* at most one task is inside the exclusive section, every listener is sent
\* the states in the order they came about (each message is the newest state,
\* newer than all it was sent before), and no listener is sent a state older
\* than one any listener has already been sent.
C15_Ordering == [][C15_Step]_vars

\* one task subscribed listener 2 and the other then mutated: both listeners
\* hold the state of the mutation after the state they subscribed at
C15_Witness ==
    /\ \A t \in Tasks : pc[t] = "done"
    /\ Len(order) = 2
    /\ listeners = {1, 2}
    /\ Len(inbox[1]) = 2 /\ Len(inbox[2]) = 2
    /\ inbox[1][2] = inbox[2][2]
    /\ inbox[2][2].json = <<order[2]>>
    /\ order[2] # order[1]

----------------------------------------------------------------------------
(* C16 *)

\* the snapshot listener x was sent by the step
Received(x) == chan'[x].last[1]

C16_Step ==
    lastOp'.op \in Mutations =>
        \A x \in Listeners : sent'[x] = 1 => file' = FileDoc(Received(x))

\* C16: a mutation sends a snapshot to a listener only after it has persisted
\* that same snapshot, so whatever a mutation has sent to a listener is on
\* disk when the call ends: a fault can leave a state persisted and not
\* broadcast, never broadcast and not persisted.
C16_Claim == [][C16_Step]_vars

----------------------------------------------------------------------------
(* C17 *)

C17_Step ==
    lastOp'.op = "play" =>
        LET id == lastOp'.id
        IN  /\ lastOp'.res = "true" =>
                /\ id \notin IdSet(list')
                /\ play_history' # <<>>
                /\ play_history'[Len(play_history')].id = id
            /\ lastOp'.res = "false" <=> id \notin IdSet(list)
            /\ lastOp'.res = "false" => UNCHANGED Observable

\* C17: when Advance(id) returns true the entry has left the pending queue and
\* is the last entry of the play history, also when the catalog lookup for the
\* song-log record fails; it returns false exactly when id is not queued, and
\* then nothing changes.
C17_Claim == [][C17_Step]_vars

----------------------------------------------------------------------------
(* C18 *)

\* the call ran the prediction walk of its apply-change step
Recomputed(op) ==
    /\ op.op \in Mutations
    /\ op.res \in {"ok", "true", "err"}
    /\ op.fault \in {"none", LogFault, "send", "create", "write"}

RECURSIVE SumResolved(_, _, _)
\* sum of (avg + duration) over the resolvable entries at positions 1..i
SumResolved(l, i, avg) ==
    IF i = 0
    THEN 0
    ELSE SumResolved(l, i - 1, avg)
            + (IF l[i].song \in index THEN avg + SongDuration(l[i].song) ELSE 0)

C18_Step ==
    Recomputed(lastOp') =>
        LET h == play_history'
            start == IF h # <<>> THEN h[Len(h)].predicted_end ELSE now
            avg == IF intermission_count' = 0 THEN 0
                   ELSE intermission_duration' \div intermission_count'
        IN  \A i \in 1..Len(list') :
                IF list'[i].song \in index
                THEN list'[i].predicted_end = start + SumResolved(list', i, avg)
                ELSE /\ list'[i].id \in IdSet(list)
                     /\ list'[i].predicted_end = Entry(list, list'[i].id).predicted_end

\* C18: after every apply-change step, with start = predicted end of the last
\* history entry (the current time if the history is empty) and avg =
\* cumulative intermission / count (0 if count is 0), each resolvable pending
\* entry at position i has predicted end = start + the sum of (avg + duration)
\* over the resolvable entries up to i, and each unresolvable entry keeps its
\* prior predicted end and does not advance the running timestamp.
C18_Prediction == [][C18_Step]_vars

\* a walk from the history's tail has passed an unresolvable entry
C18_Witness ==
    /\ Recomputed(lastOp) /\ lastOp.res \in Success
    /\ Len(play_history) = 1 /\ Len(list) >= 2
    /\ list[1].song \notin index
    /\ list[2].song \in index
    /\ list[2].predicted_end = play_history[1].predicted_end + SongDuration(list[2].song)

----------------------------------------------------------------------------
(* C19 *)

C19_Step ==
    /\ lastOp'.op = "unsubscribe" => lastOp'.id \notin listeners'
    /\ (lastOp'.op \in Mutations /\ lastOp'.fault = "send") =>
            \E x \in ClosedListeners : x \notin listeners'

\* C19: a registration is removed by unsubscribe and by a delivery fault: once
\* a send to a listener's channel has failed, that listener is no longer
\* registered, so that the mutations that follow do not send to it.
C19_Claim == [][C19_Step]_vars

----------------------------------------------------------------------------
(* C20 *)

\* the Submit has returned an id
Submitted == lastOp'.op = "add" /\ lastOp'.res = "ok"

NewEntry == list'[Len(list')]

C20_OriginalStep ==
    Submitted =>
        /\ Ids(list') = Append(Ids(list), lastOp'.id)
        /\ NewEntry.predicted_end =
                (IF list = <<>> THEN now ELSE list[Len(list)].predicted_end)
                    + SongDuration(lastOp'.song)

\* C20: on a successful Submit the new entry is appended at the queue tail and,
\* when the call returns, its predicted end is the predicted end the tail had
\* before the call (the current time if the queue was empty) plus the duration
\* of the submitted song.
C20_Original == [][C20_OriginalStep]_vars

\* positions before the new entry whose song the catalog resolves
ResolvedBefore == {i \in 1..(Len(list') - 1) : list'[i].song \in index}

C20_Step ==
    Submitted =>
        LET h == play_history'
            start == IF h # <<>> THEN h[Len(h)].predicted_end ELSE now
            avg == IF intermission_count' = 0 THEN 0
                   ELSE intermission_duration' \div intermission_count'
            base == IF ResolvedBefore = {} THEN start
                    ELSE list'[CHOOSE i \in ResolvedBefore :
                                  \A j \in ResolvedBefore : j <= i].predicted_end
        IN  /\ Ids(list') = Append(Ids(list), lastOp'.id)
            /\ NewEntry.song = lastOp'.song
            /\ NewEntry.password_hash = digest(lastOp'.pw)
            /\ NewEntry.predicted_end = base + avg + SongDuration(lastOp'.song)

\* C20 as amended: on a successful Submit the new entry is appended at the
\* queue tail and, when the call returns, its predicted end is the predicted
\* end the same call has recomputed for the last resolvable entry before it
\* (with none, the predicted end of the last history entry, or the current
\* time if the history is empty) plus the average intermission plus the
\* duration of the submitted song.
C20_Submit == [][C20_Step]_vars

\* a Submit behind three queued entries with a positive average intermission
C20_Witness ==
    /\ lastOp.op = "add" /\ lastOp.res = "ok"
    /\ Len(list) = 4
    /\ list[4].id = lastOp.id
    /\ average_intermission(intermission_duration, intermission_count) > 0
    /\ list[4].predicted_end > list[3].predicted_end + SongDuration(lastOp.song)

====
